---- MODULE Spec2Model ----
(***************************************************************************)
(* Model of interactive_ai_tutor.py: the TechnicalTutor session loop.      *)
(* Strings that the code inspects (input lines, model keys, model names)   *)
(* are sequences of one-character strings, so that strip, split, lower,    *)
(* startswith and the substring test are computed as the code computes     *)
(* them.  Answer texts are opaque and are TLA+ strings.                    *)
(***************************************************************************)
EXTENDS Integers, Sequences, FiniteSets, TLC

\* ---------------------------------------------------------------- bounds
\* The history is unbounded in the code; a question is only read while the
\* history is shorter than this.
MaxHistory == 2

\* ------------------------------------------------------- string helpers
Whitespace == {" ", "\t"}

lower_char(c) ==
  CASE c = "E" -> "e" [] c = "X" -> "x" [] c = "I" -> "i" [] c = "T" -> "t"
    [] c = "Q" -> "q" [] c = "G" -> "g" [] c = "P" -> "p" [] OTHER -> c

\* str.lower()
lower(s) == [i \in 1..Len(s) |-> lower_char(s[i])]

\* str.startswith(p)
startswith(s, p) == Len(s) >= Len(p) /\ SubSeq(s, 1, Len(p)) = p

RECURSIVE lstrip(_)
lstrip(s) == IF s # <<>> /\ Head(s) \in Whitespace THEN lstrip(Tail(s)) ELSE s

RECURSIVE rstrip(_)
rstrip(s) ==
  IF s # <<>> /\ s[Len(s)] \in Whitespace THEN rstrip(SubSeq(s, 1, Len(s) - 1)) ELSE s

\* the identity in place of str.strip()
strip_none(s) == s

\* str.strip()
strip(s) == rstrip(lstrip(s))

\* length of the leading run of non-whitespace characters
RECURSIVE word_len(_)
word_len(s) == IF s = <<>> \/ Head(s) \in Whitespace THEN 0 ELSE 1 + word_len(Tail(s))

\* str.split() with no separator: split on runs of whitespace, no empty parts
RECURSIVE split(_)
split(s) ==
  LET t == lstrip(s) IN
  IF t = <<>> THEN <<>>
  ELSE LET n == word_len(t) IN <<SubSeq(t, 1, n)>> \o split(SubSeq(t, n + 1, Len(t)))

\* Python's  a in b  on strings
contains(b, a) == \E i \in 0..(Len(b) - Len(a)) : SubSeq(b, i + 1, i + Len(a)) = a

\* ------------------------------------------------------ program constants
MODEL_GPT == <<"g","p","t","-","4","o","-","m","i","n","i">>
MODEL_LLAMA == <<"l","l","a","m","a","3",".","2">>

KEY_GPT == <<"g","p","t">>
KEY_LLAMA == <<"l","l","a","m","a">>

AVAILABLE_MODELS ==
  (KEY_GPT :> [name |-> MODEL_GPT, provider |-> "openai"]) @@
  (KEY_LLAMA :> [name |-> MODEL_LLAMA, provider |-> "ollama"])

\* the number of characters of a question `!history` shows
PREVIEW_LEN == 100
Ellipsis == <<".", ".", ".">>

\* Python's None as the value of  answer  and of  openai_client
None == "None"

\* ------------------------------------------------------------- the inputs
Bang == <<"!">>
W_quit == <<"q","u","i","t">>
W_exit == <<"e","x","i","t">>
W_help == <<"h","e","l","p">>
W_model == <<"m","o","d","e","l">>
W_history == <<"h","i","s","t","o","r","y">>
W_clear == <<"c","l","e","a","r">>
W_save == <<"s","a","v","e">>
Sp == <<" ">>

\* the lines the user types, before stripping
RawInputs ==
  { <<>>,                                   \* ""
    <<" ", "\t">>,                          \* whitespace only
    Bang,                                   \* "!"
    Bang \o Sp \o W_quit,                   \* "! quit"
    Bang \o W_quit,                         \* "!quit"
    Sp \o Bang \o W_exit \o Sp,             \* " !exit "
    Bang \o <<"E","X","I","T">>,            \* "!EXIT"
    Bang \o <<"Q","u","i","t">> \o Sp \o <<"n","o","w">>,  \* "!Quit now"
    Bang \o W_quit \o <<"x">>,              \* "!quitx"
    Bang \o W_exit \o <<"s">>,              \* "!exits"
    Bang \o <<"f","o","o">>,                \* "!foo"
    Bang \o W_help,                         \* "!help"
    Bang \o W_model,                        \* "!model"
    Bang \o W_model \o Sp \o KEY_GPT,       \* "!model gpt"
    Bang \o W_model \o Sp \o <<"G","P","T">>,  \* "!model GPT"
    Bang \o W_model \o Sp \o KEY_LLAMA,     \* "!model llama"
    Bang \o W_model \o Sp \o <<"g","g","p","t">>,  \* "!model ggpt"
    Bang \o W_history,                      \* "!history"
    Bang \o W_clear,                        \* "!clear"
    Bang \o W_save,                         \* "!save"
    <<"h","i">>,                            \* "hi"
    [i \in 1..PREVIEW_LEN |-> "x"],         \* a question of exactly 100 characters
    [i \in 1..(PREVIEW_LEN + 1) |-> "y"],   \* a question of 101 characters
    Sp \o <<"a","!">> \o Sp }               \* " a! "

\* the texts a completion backend returns; "" is the empty text
AnswerTexts == {"", "A1"}

\* what `ollama list` answers: the daemon is down (the call raises), or it
\* lists the installed models
OllamaStates ==
  { [running |-> FALSE, models |-> {}],
    [running |-> TRUE, models |-> {<<"m","i","s","t","r","a","l">>}],
    [running |-> TRUE, models |-> {<<"m","i","s","t","r","a","l">>,
                                   MODEL_LLAMA \o <<":","l","a","t","e","s","t">>}] }

\* ------------------------------------------------------------------ state
VARIABLES
  pc,                    \* "welcome", "awaiting", "dispatching", "calling", "terminated"
  openai_client,         \* None or "client"
  conversation_history,  \* sequence of <<question, answer>>
  current_model,         \* a key of AVAILABLE_MODELS
  line,                  \* the line input() returned in the current turn
  question,              \* the stripped line of the current turn
  answer,                \* what ask_question returned in the current turn
  ollama,                \* the local daemon, an element of OllamaStates
  welcome_status,        \* the availability marks display_welcome rendered
  output,                \* the messages printed in the current turn
  after_clear,           \* the turn before was a `!clear` that cleared the history
  interrupted,           \* a KeyboardInterrupt (or end of input) was delivered
  backend_calls,         \* the providers called in the current turn
  file_written,          \* the chunks the current turn wrote to the export file
  history_text           \* the preview lines `!history` rendered in the current turn

vars == <<pc, openai_client, conversation_history, current_model, line, question, answer,
          ollama, welcome_status, output, after_clear, interrupted,
          backend_calls, file_written, history_text>>

\* ---------------------------------------------------------------- helpers
Range(s) == {s[i] : i \in 1..Len(s)}

\* the availability check answers yes for every known key
test_model_availability_optimistic(model_key) == model_key \in DOMAIN AVAILABLE_MODELS

\* the availability check takes the remote backend as always present
test_model_availability_any_openai(model_key) ==
  IF model_key \notin DOMAIN AVAILABLE_MODELS THEN FALSE
  ELSE IF AVAILABLE_MODELS[model_key].provider = "openai" THEN TRUE
  ELSE ollama.running /\ \E m \in ollama.models : contains(m, MODEL_LLAMA)

\* the availability check tests the client only for the local backend
test_model_availability_wrong_provider(model_key) ==
  IF model_key \notin DOMAIN AVAILABLE_MODELS THEN FALSE
  ELSE IF AVAILABLE_MODELS[model_key].provider = "openai"
       THEN ollama.running
       ELSE ollama.running /\ \E m \in ollama.models : contains(m, MODEL_LLAMA)

\* the availability check answers what the welcome screen showed
test_model_availability_cached(model_key) ==
  model_key \in DOMAIN AVAILABLE_MODELS /\ welcome_status[model_key]

\* TechnicalTutor.test_model_availability; an exception of ollama.list()
\* (daemon not running) is caught and gives False
test_model_availability(model_key) ==
  IF model_key \notin DOMAIN AVAILABLE_MODELS THEN FALSE
  ELSE LET model_info == AVAILABLE_MODELS[model_key] IN
       IF model_info.provider = "openai" THEN openai_client # None
       ELSE IF model_info.provider = "ollama"
            THEN IF ollama.running
                 THEN \E m \in ollama.models : contains(m, model_info.name)
                 ELSE FALSE
            ELSE FALSE

\* the branch of `!model <name>` that assigns before it validates
select_model_assign_first(new_model) ==
  IF new_model \in DOMAIN AVAILABLE_MODELS
  THEN IF test_model_availability(new_model)
       THEN [model |-> new_model, out |-> <<"Switched">>]
       ELSE [model |-> current_model, out |-> <<"NotAvailable">>]
  ELSE [model |-> new_model, out |-> <<"UnknownModel">>]

\* the branch of `!model <name>` that falls back to the local model when
\* the requested one is refused
select_model_fallback(new_model) ==
  IF new_model \in DOMAIN AVAILABLE_MODELS
  THEN IF test_model_availability(new_model)
       THEN [model |-> new_model, out |-> <<"Switched">>]
       ELSE [model |-> KEY_LLAMA, out |-> <<"NotAvailable">>]
  ELSE [model |-> current_model, out |-> <<"UnknownModel">>]

\* the branch of `!model <name>` without the membership test
select_model_unchecked(new_model) ==
  IF test_model_availability(new_model)
  THEN [model |-> new_model, out |-> <<"Switched">>]
  ELSE [model |-> current_model, out |-> <<"NotAvailable">>]

\* handle_command, the branch of `!model <name>`
select_model(new_model) ==
  IF new_model \in DOMAIN AVAILABLE_MODELS
  THEN IF test_model_availability(new_model)
       THEN [model |-> new_model, out |-> <<"Switched">>]
       ELSE [model |-> current_model, out |-> <<"NotAvailable">>]
  ELSE [model |-> current_model, out |-> <<"UnknownModel">>]

\* the three writes of one loop iteration of save_conversation
export_block(i, entry) ==
  << [kind |-> "Question", n |-> i, text |-> entry[1]],
     [kind |-> "Answer", n |-> i, text |-> entry[2]],
     [kind |-> "Rule", n |-> i, text |-> ""] >>

\* the blocks numbered from 0
RECURSIVE export_blocks_from_zero(_, _)
export_blocks_from_zero(history, k) ==
  IF k = 0 THEN <<>>
  ELSE export_blocks_from_zero(history, k - 1) \o export_block(k - 1, history[k])

\* the blocks of the first k entries, enumerate(history, 1)
RECURSIVE export_blocks(_, _)
export_blocks(history, k) ==
  IF k = 0 THEN <<>>
  ELSE export_blocks(history, k - 1) \o export_block(k, history[k])

\* save_conversation that reports success whatever the write did
save_conversation_silent(fault) ==
  LET n == Len(conversation_history)
      header == <<[kind |-> "Header", n |-> 0, text |-> ""]>> IN
  IF conversation_history = <<>>
  THEN [out |-> <<"NoConversationToSave">>, written |-> <<>>]
  ELSE IF fault = 0 THEN [out |-> <<"Saved">>, written |-> <<>>]
  ELSE IF fault <= n
       THEN [out |-> <<"Saved">>,
             written |-> header \o export_blocks(conversation_history, fault - 1)]
  ELSE [out |-> <<"Saved">>, written |-> header \o export_blocks(conversation_history, n)]

\* save_conversation without the test for an empty history
save_conversation_unguarded(fault) ==
  LET n == Len(conversation_history)
      header == <<[kind |-> "Header", n |-> 0, text |-> ""]>> IN
  IF fault = 0 THEN [out |-> <<"ErrorSaving">>, written |-> <<>>]
  ELSE IF fault <= n
       THEN [out |-> <<"ErrorSaving">>,
             written |-> header \o export_blocks(conversation_history, fault - 1)]
  ELSE [out |-> <<"Saved">>, written |-> header \o export_blocks(conversation_history, n)]

\* TechnicalTutor.save_conversation.  fault = 0: open() raises;
\* fault = k in 1..len: the write of block k raises; fault > len: no error.
save_conversation(fault) ==
  LET n == Len(conversation_history)
      header == <<[kind |-> "Header", n |-> 0, text |-> ""]>> IN
  IF conversation_history = <<>>
  THEN [out |-> <<"NoConversationToSave">>, written |-> <<>>]
  ELSE IF fault = 0 THEN [out |-> <<"ErrorSaving">>, written |-> <<>>]
  ELSE IF fault <= n
       THEN [out |-> <<"ErrorSaving">>,
             written |-> header \o export_blocks(conversation_history, fault - 1)]
  ELSE [out |-> <<"Saved">>, written |-> header \o export_blocks(conversation_history, n)]

\* the ellipsis is added from the truncation length on
preview_from_limit(q) ==
  SubSeq(q, 1, IF Len(q) < PREVIEW_LEN THEN Len(q) ELSE PREVIEW_LEN)
    \o (IF Len(q) >= PREVIEW_LEN THEN Ellipsis ELSE <<>>)

\* f"{q[:100]}{'...' if len(q) > 100 else ''}"
preview(q) ==
  SubSeq(q, 1, IF Len(q) < PREVIEW_LEN THEN Len(q) ELSE PREVIEW_LEN)
    \o (IF Len(q) > PREVIEW_LEN THEN Ellipsis ELSE <<>>)

\* the lines of `!history`: enumerate(self.conversation_history, 1)
history_preview(history) == [i \in 1..Len(history) |-> [n |-> i, text |-> preview(history[i][1])]]

\* a lone sentinel is not taken for a command
is_command_with_verb(command) == startswith(command, Bang) /\ Len(command) > 1

\* handle_command, the test of its first line: does the input start with '!'
is_command(command) == startswith(command, Bang)

\* TechnicalTutor.handle_command for an input that starts with '!': what it
\* prints and the session state it leaves; raised = parts[0] raised IndexError
handle_command(command, fault) ==
  LET parts == split(Tail(command))
      same == [raised |-> FALSE, out |-> <<>>, model |-> current_model,
               history |-> conversation_history, written |-> <<>>, text |-> <<>>] IN
  IF parts = <<>> THEN [same EXCEPT !.raised = TRUE]
  ELSE LET cmd == lower(parts[1]) IN
    IF cmd \in {W_quit, W_exit} THEN [same EXCEPT !.out = <<"Goodbye">>]
    ELSE IF cmd = W_help THEN [same EXCEPT !.out = <<"Help">>]
    ELSE IF cmd = W_model
         THEN IF Len(parts) > 1
              THEN LET sel == select_model(lower(parts[2])) IN
                   [same EXCEPT !.out = sel.out, !.model = sel.model]
              ELSE [same EXCEPT !.out = <<"CurrentModel">>]
    ELSE IF cmd = W_history
         THEN IF conversation_history # <<>>
              THEN [same EXCEPT !.out = <<"History">>,
                                !.text = history_preview(conversation_history)]
              ELSE [same EXCEPT !.out = <<"NoHistoryYet">>]
    ELSE IF cmd = W_clear THEN [same EXCEPT !.out = <<"Cleared">>, !.history = <<>>]
    ELSE IF cmd = W_save
         THEN LET sv == save_conversation(fault) IN
              [same EXCEPT !.out = sv.out, !.written = sv.written]
    ELSE [same EXCEPT !.out = <<"UnknownCommand">>]

\* run_interactive_session, the test after a handled command
loop_breaks(q) == startswith(q, Bang \o W_quit) \/ startswith(q, Bang \o W_exit)

\* every question goes to the local backend
backend_of_local(model_key) == "ollama"

\* ask_question: model_info = AVAILABLE_MODELS[self.current_model], and the
\* branch on model_info['provider']
backend_of(model_key) == AVAILABLE_MODELS[model_key].provider

\* what a completion call does: it raises, or it returns a text
Responses ==
  {[raises |-> TRUE, text |-> ""]} \cup {[raises |-> FALSE, text |-> t] : t \in AnswerTexts}

\* the exception handler returns the error text
ask_question_error_text(resp) == IF resp.raises THEN "error" ELSE resp.text

\* TechnicalTutor.ask_question: the text of the response, None if the call raised
ask_question(resp) == IF resp.raises THEN None ELSE resp.text

\* `if answer:`
truthy(a) == a # None /\ a # ""

\* the exchange is inserted at the front of the history
record_exchange_front(history, q, a) == <<(<<q, a>>)>> \o history

\* self.conversation_history.append((question, answer))
record_exchange(history, q, a) == Append(history, <<q, a>>)

\* a bare `except:` holds every exception
bare_except_catches(exc) == TRUE

\* `except Exception`: KeyboardInterrupt and SystemExit derive from
\* BaseException and are not held
except_Exception_catches(exc) == exc \notin {"KeyboardInterrupt", "SystemExit"}

\* ------------------------------------------------------------------- Init
\* the state after TechnicalTutor(): the OpenAI client was built or not
Init ==
  /\ pc = "welcome"
  /\ openai_client \in {None, "client"}
  /\ conversation_history = <<>>
  /\ current_model = KEY_LLAMA
  /\ line = <<>>
  /\ question = <<>>
  /\ answer = None
  /\ ollama \in OllamaStates
  /\ welcome_status = [k \in DOMAIN AVAILABLE_MODELS |-> FALSE]
  /\ output = <<>>
  /\ after_clear = FALSE
  /\ interrupted = FALSE
  /\ backend_calls = <<>>
  /\ file_written = <<>>
  /\ history_text = <<>>

\* ---------------------------------------------------------------- actions
\* display_welcome: probes every model and renders the marks
display_welcome ==
  /\ pc = "welcome"
  /\ welcome_status' = [k \in DOMAIN AVAILABLE_MODELS |-> test_model_availability(k)]
  /\ output' = <<"Welcome">>
  /\ pc' = "awaiting"
  /\ UNCHANGED <<history_text, after_clear, interrupted, openai_client, conversation_history, current_model, line, question,
                 answer, ollama, backend_calls, file_written>>

\* the local daemon starts, stops, or its installed models change
OllamaChanges ==
  /\ pc # "terminated"
  /\ ollama' \in OllamaStates \ {ollama}
  /\ UNCHANGED <<history_text, after_clear, interrupted, pc, openai_client, conversation_history, current_model, line, question,
                 answer, welcome_status, output, backend_calls, file_written>>

\* get_user_input returns the stripped line
get_user_input ==
  /\ pc = "awaiting"
  /\ \E raw \in RawInputs :
       /\ line' = raw
       /\ question' = strip(raw)
       /\ (question' # <<>> /\ ~is_command(question')) =>
             Len(conversation_history) < MaxHistory
  /\ answer' = None
  /\ after_clear' = (output = <<"Cleared">>)
  /\ output' = <<>>
  /\ backend_calls' = <<>>
  /\ file_written' = <<>>
  /\ history_text' = <<>>
  /\ pc' = "dispatching"
  /\ UNCHANGED <<openai_client, conversation_history, current_model, ollama, welcome_status,
                 interrupted>>

\* get_user_input: KeyboardInterrupt or EOFError in input() prints the
\* farewell and calls sys.exit(0); the SystemExit passes the loop's handlers
get_user_input_exit ==
  /\ pc = "awaiting"
  /\ interrupted' = TRUE
  /\ IF except_Exception_catches("SystemExit")
     THEN output' = <<"GoodbyeExit", "UnexpectedError">> /\ pc' = "awaiting"
     ELSE output' = <<"GoodbyeExit">> /\ pc' = "terminated"
  /\ UNCHANGED <<history_text, after_clear, openai_client, conversation_history, current_model, line,
                 question, answer, ollama, welcome_status, backend_calls, file_written>>

\* `if not question`
EmptyInput ==
  /\ pc = "dispatching"
  /\ question = <<>>
  /\ output' = <<"PleaseEnter">>
  /\ pc' = "awaiting"
  /\ UNCHANGED <<history_text, after_clear, interrupted, openai_client, conversation_history, current_model, line, question,
                 answer, ollama, welcome_status, backend_calls, file_written>>

\* `if self.handle_command(question)`: the command and the break/continue
\* after it; an IndexError is caught by the loop's `except Exception`
HandleCommand ==
  /\ pc = "dispatching"
  /\ question # <<>>
  /\ is_command(question)
  /\ \E fault \in 0..(Len(conversation_history) + 1) :
       LET r == handle_command(question, fault) IN
       IF r.raised
       THEN /\ output' = <<"UnexpectedError">>
            /\ pc' = "awaiting"
            /\ UNCHANGED <<conversation_history, current_model, file_written, history_text>>
       ELSE /\ output' = r.out
            /\ history_text' = r.text
            /\ current_model' = r.model
            /\ conversation_history' = r.history
            /\ file_written' = r.written
            /\ pc' = IF loop_breaks(question) THEN "terminated" ELSE "awaiting"
  /\ UNCHANGED <<after_clear, interrupted, openai_client, line, question, answer, ollama, welcome_status, backend_calls>>

\* ask_question up to the completion call; with no client the attribute
\* access raises before any call is made
AskQuestion ==
  /\ pc = "dispatching"
  /\ question # <<>>
  /\ ~is_command(question)
  /\ LET provider == backend_of(current_model) IN
     backend_calls' = IF provider = "openai" /\ openai_client = None
                      THEN backend_calls
                      ELSE Append(backend_calls, provider)
  /\ output' = <<"Thinking">>
  /\ pc' = "calling"
  /\ UNCHANGED <<history_text, after_clear, interrupted, openai_client, conversation_history, current_model, line, question,
                 answer, ollama, welcome_status, file_written>>

\* the completion call returns or raises, and the rest of the turn
BackendReturn ==
  /\ pc = "calling"
  /\ \E resp \in Responses :
       /\ (~test_model_availability(current_model)) => resp.raises
       /\ answer' = ask_question(resp)
       /\ output' = output \o (IF resp.raises THEN <<"Error">> ELSE <<>>)
                           \o (IF truthy(answer') THEN <<"Answer", "FollowUp">>
                                                  ELSE <<"Sorry">>)
       /\ conversation_history' =
            IF truthy(answer') THEN record_exchange(conversation_history, question, answer')
                               ELSE conversation_history
  /\ pc' = "awaiting"
  /\ UNCHANGED <<history_text, after_clear, interrupted, openai_client, current_model, line, question, ollama, welcome_status,
                 backend_calls, file_written>>

\* the try block a KeyboardInterrupt is raised in while the turn is handled:
\* the one of ask_question, of save_conversation, of test_model_availability,
\* or only the one of the loop
interrupt_site ==
  IF pc = "calling" THEN "ask_question"
  ELSE IF question = <<>> \/ ~is_command(question) \/ split(Tail(question)) = <<>> THEN "loop"
  ELSE LET parts == split(Tail(question)) IN
       IF lower(parts[1]) = W_save /\ conversation_history # <<>> THEN "save_conversation"
       ELSE IF lower(parts[1]) = W_model /\ Len(parts) > 1
               /\ lower(parts[2]) \in DOMAIN AVAILABLE_MODELS
            THEN "test_model_availability"
       ELSE "loop"

\* KeyboardInterrupt while a command executes or a completion call is in
\* progress: no `except Exception` holds it, `except KeyboardInterrupt` of
\* the loop prints the farewell and breaks.  An export in progress leaves
\* the blocks written so far.
SessionInterrupted ==
  /\ pc \in {"dispatching", "calling"}
  /\ interrupted' = TRUE
  /\ \E k \in 0..Len(conversation_history) :
       file_written' =
         IF interrupt_site = "save_conversation" /\ k > 0
         THEN <<[kind |-> "Header", n |-> 0, text |-> ""]>>
                \o export_blocks(conversation_history, k - 1)
         ELSE file_written
  /\ IF interrupt_site # "loop" /\ except_Exception_catches("KeyboardInterrupt")
     THEN /\ pc' = "awaiting"
          /\ output' = IF interrupt_site = "ask_question" THEN output \o <<"Error", "Sorry">>
                       ELSE IF interrupt_site = "save_conversation" THEN <<"ErrorSaving">>
                       ELSE <<"NotAvailable">>
     ELSE /\ pc' = "terminated"
          /\ output' = Append(output, "SessionInterrupted")
  /\ UNCHANGED <<history_text, after_clear, openai_client, conversation_history, current_model, line,
                 question, answer, ollama, welcome_status, backend_calls>>

\* KeyboardInterrupt while the welcome screen is rendered, before the loop's
\* try block: main catches only Exception, the process ends with a traceback
welcome_interrupted ==
  /\ pc = "welcome"
  /\ interrupted' = TRUE
  /\ output' = IF except_Exception_catches("KeyboardInterrupt") THEN <<"FatalError">>
               ELSE <<"Traceback">>
  /\ pc' = "terminated"
  /\ UNCHANGED <<history_text, after_clear, openai_client, conversation_history, current_model, line,
                 question, answer, ollama, welcome_status, backend_calls, file_written>>

Next ==
  \/ display_welcome
  \/ OllamaChanges
  \/ get_user_input
  \/ get_user_input_exit
  \/ EmptyInput
  \/ HandleCommand
  \/ AskQuestion
  \/ BackendReturn
  \/ SessionInterrupted
  \/ welcome_interrupted

Spec == Init /\ [][Next]_vars

\* ------------------------------------------------------------- the claims
\* the verb of a command line: the first token after the sentinel, lowercased
HasVerb(q) == startswith(q, Bang) /\ split(Tail(q)) # <<>>
Verb(q) == lower(split(Tail(q))[1])
HasArg(q) == HasVerb(q) /\ Len(split(Tail(q))) > 1
Arg(q) == lower(split(Tail(q))[2])
RecognizedVerbs == {W_quit, W_exit, W_help, W_model, W_history, W_clear, W_save}
AllWhitespace(s) == \A i \in 1..Len(s) : s[i] \in Whitespace

\* the step is the loop handling the input of the turn: not a change of the
\* environment and not an interrupt
TurnStep == pc' # pc /\ "SessionInterrupted" \notin Range(output')

\* the backend of a known key reports itself reachable now: the remote one
\* has a client, the local daemon answers and lists a model of that name
Reachable(key) ==
  \/ key = KEY_GPT /\ openai_client # None
  \/ key = KEY_LLAMA /\ ollama.running /\ \E m \in ollama.models : contains(m, MODEL_LLAMA)

\* C1: while the input of the turn starts with '!', no step starts a backend
\* call or adds an entry to history, whatever follows the sentinel.
C1_CommandNeverForwarded ==
  [][ (pc = "dispatching" /\ startswith(question, Bang)) =>
        /\ pc' # "calling"
        /\ backend_calls' = <<>>
        /\ Len(conversation_history') <= Len(conversation_history) ]_vars

C1_Witness ==
  /\ pc = "awaiting"
  /\ question = Bang
  /\ output = <<"UnexpectedError">>
  /\ backend_calls = <<>>
  /\ conversation_history # <<>>

\* C2: an input whose verb, compared case-insensitively, is quit or exit
\* terminates the loop.
C2_QuitVerbTerminates ==
  [][ (pc = "dispatching" /\ HasVerb(question) /\ Verb(question) \in {W_quit, W_exit}
       /\ pc' # pc) => pc' = "terminated" ]_vars

\* C3: a command whose verb is not recognized reports "unknown command",
\* leaves model and history unchanged and returns to awaiting input.
C3_UnknownVerbContinues ==
  [][ (pc = "dispatching" /\ HasVerb(question) /\ Verb(question) \notin RecognizedVerbs
       /\ TurnStep) =>
        /\ pc' = "awaiting"
        /\ output' = <<"UnknownCommand">>
        /\ current_model' = current_model
        /\ conversation_history' = conversation_history ]_vars

\* C4: `!model <key>` with a key outside the descriptor table leaves the
\* selection unchanged and reports the unknown-model message.
C4_UnknownModelKey ==
  [][ (pc = "dispatching" /\ HasArg(question) /\ Verb(question) = W_model
       /\ Arg(question) \notin DOMAIN AVAILABLE_MODELS /\ TurnStep) =>
        /\ current_model' = current_model
        /\ output' = <<"UnknownModel">>
        /\ pc' = "awaiting" ]_vars

C4_Witness ==
  /\ pc = "awaiting"
  /\ HasArg(question) /\ Verb(question) = W_model /\ Arg(question) = <<"g","g","p","t">>
  /\ output = <<"UnknownModel">>
  /\ current_model = KEY_GPT

\* C5: `!model <key>` with a known key whose backend is unreachable at the
\* time of the command leaves the selection unchanged and reports "not
\* available".
C5_UnavailableModelKey ==
  [][ (pc = "dispatching" /\ HasArg(question) /\ Verb(question) = W_model
       /\ Arg(question) \in DOMAIN AVAILABLE_MODELS /\ ~Reachable(Arg(question))
       /\ TurnStep) =>
        /\ current_model' = current_model
        /\ output' = <<"NotAvailable">>
        /\ pc' = "awaiting" ]_vars

C5_Witness ==
  /\ pc = "awaiting"
  /\ HasArg(question) /\ Verb(question) = W_model /\ Arg(question) = KEY_LLAMA
  /\ output = <<"NotAvailable">>
  /\ current_model = KEY_GPT
  /\ welcome_status[KEY_LLAMA]

\* C6: `!model <key>` with a known key succeeds exactly when the backend is
\* reachable at the time of that command, whatever an earlier probe said.
C6_SwitchIffReachableNow ==
  [][ (pc = "dispatching" /\ HasArg(question) /\ Verb(question) = W_model
       /\ Arg(question) \in DOMAIN AVAILABLE_MODELS /\ TurnStep) =>
        /\ (output' = <<"Switched">>) <=> Reachable(Arg(question))
        /\ current_model' = IF Reachable(Arg(question)) THEN Arg(question)
                                                        ELSE current_model ]_vars

C6_Witness ==
  /\ pc = "awaiting"
  /\ HasArg(question) /\ Verb(question) = W_model /\ Arg(question) = KEY_LLAMA
  /\ output = <<"Switched">>
  /\ current_model = KEY_LLAMA
  /\ ~welcome_status[KEY_LLAMA]

\* C7: a backend call that returns without error, whatever the text, appends
\* exactly the entry (question, answer) to history.
C7_AnswerRecorded ==
  [][ (pc = "calling" /\ pc' = "awaiting" /\ "Error" \notin Range(output')) =>
        conversation_history' = Append(conversation_history, <<question, answer'>>) ]_vars

\* C8: a backend call that raises leaves history and the selected model as
\* they were, reports the error, and the loop awaits input again.
C8_FailedCallDiscarded ==
  [][ (pc = "calling" /\ "Error" \in Range(output')) =>
        /\ conversation_history' = conversation_history
        /\ current_model' = current_model
        /\ output' = <<"Thinking", "Error", "Sorry">>
        /\ pc' = "awaiting" ]_vars

C8_Witness ==
  /\ pc = "awaiting"
  /\ "Error" \in Range(output)
  /\ conversation_history # <<>>
  /\ current_model = KEY_GPT
  /\ backend_calls = <<"openai">>

\* C9: an empty or whitespace-only input starts no backend call, is answered
\* with the prompt to retry, leaves history and model unchanged, and never
\* is a question of the history.
C9_EmptyInputRejected ==
  [][ /\ (pc = "dispatching" /\ AllWhitespace(line) /\ TurnStep) =>
            /\ pc' = "awaiting"
            /\ output' = <<"PleaseEnter">>
            /\ backend_calls' = <<>>
            /\ conversation_history' = conversation_history
            /\ current_model' = current_model
      /\ \A i \in 1..Len(conversation_history') :
            ~AllWhitespace(conversation_history'[i][1]) ]_vars

C9_Witness ==
  /\ pc = "awaiting"
  /\ line = <<" ", "\t">>
  /\ output = <<"PleaseEnter">>
  /\ conversation_history # <<>>

\* the file holds, after the header, one Question n / Answer n / rule block
\* per entry of h, numbered from 1 in the order of h, with the entry's texts
ExportMatches(f, h) ==
  /\ Len(f) = 1 + 3 * Len(h)
  /\ Cardinality({i \in 1..Len(f) : f[i].kind = "Question"}) = Len(h)
  /\ \A n \in 1..Len(h) :
       /\ f[3 * n - 1].kind = "Question" /\ f[3 * n - 1].n = n
       /\ f[3 * n - 1].text = h[n][1]
       /\ f[3 * n].kind = "Answer" /\ f[3 * n].n = n
       /\ f[3 * n].text = h[n][2]
       /\ f[3 * n + 1].kind = "Rule"

\* C10: `!save` with a non-empty history, when the write does not fail,
\* writes one Question n / Answer n block per entry, numbered 1..len in
\* insertion order, block n carrying the n-th entry.
C10_ExportBlocks ==
  [][ (pc = "dispatching" /\ HasVerb(question) /\ Verb(question) = W_save
       /\ conversation_history # <<>> /\ TurnStep) =>
        /\ output' \in {<<"Saved">>, <<"ErrorSaving">>}
        /\ conversation_history' = conversation_history
        /\ (output' = <<"Saved">>) =>
              ExportMatches(file_written', conversation_history) ]_vars

C10_Witness ==
  /\ pc = "awaiting"
  /\ HasVerb(question) /\ Verb(question) = W_save
  /\ output = <<"Saved">>
  /\ Len(conversation_history) = 2
  /\ conversation_history[1] # conversation_history[2]
  /\ Len(file_written) = 7

\* C11: `!save` in the turn right after a `!clear` gives the no-history
\* outcome: nothing is written and the history stays empty.
C11_SaveAfterClear ==
  [][ (pc = "dispatching" /\ after_clear /\ HasVerb(question)
       /\ Verb(question) = W_save /\ TurnStep) =>
        /\ output' = <<"NoConversationToSave">>
        /\ file_written' = <<>>
        /\ conversation_history' = <<>>
        /\ pc' = "awaiting" ]_vars

C11_Witness ==
  /\ pc = "awaiting"
  /\ after_clear
  /\ HasVerb(question) /\ Verb(question) = W_save
  /\ output = <<"NoConversationToSave">>
  /\ file_written = <<>>
  /\ conversation_history = <<>>

\* C12: in every reachable state the selected model key is a key of the
\* model descriptor table.
C12_SelectedModelKnown == current_model \in DOMAIN AVAILABLE_MODELS

C12_Witness ==
  /\ pc = "awaiting"
  /\ current_model = KEY_GPT
  /\ output = <<"UnexpectedError">>
  /\ conversation_history # <<>>

IsPrefix(s, t) == Len(s) <= Len(t) /\ SubSeq(t, 1, Len(s)) = s

\* C13: in every step the history before is a prefix of the history after,
\* with at most one entry added, or the step is `!clear` and the history
\* after it is empty.
C13_HistoryAppendOnly ==
  [][ \/ /\ IsPrefix(conversation_history, conversation_history')
         /\ Len(conversation_history') <= Len(conversation_history) + 1
      \/ /\ pc = "dispatching" /\ HasVerb(question) /\ Verb(question) = W_clear
         /\ conversation_history' = <<>> ]_vars

C13_Witness ==
  /\ pc = "awaiting"
  /\ Len(conversation_history) = 2
  /\ conversation_history[1] # conversation_history[2]
  /\ conversation_history[2] = <<question, answer>>
  /\ output = <<"Thinking", "Answer", "FollowUp">>

Farewell == {"GoodbyeExit", "SessionInterrupted"}

\* C14: an interrupt delivered while the loop awaits input, executes a
\* command or waits for a backend terminates the loop with a farewell: the
\* step records no entry and starts no call, and once terminated no input is
\* read, no call started and no entry recorded.
C14_InterruptTerminates ==
  [][ /\ (interrupted' /\ ~interrupted /\ pc # "welcome") =>
            /\ pc' = "terminated"
            /\ Range(output') \cap Farewell # {}
            /\ {"Error", "UnexpectedError", "ErrorSaving", "NotAvailable"}
                  \cap Range(output') = {}
            /\ conversation_history' = conversation_history
            /\ backend_calls' = backend_calls
            /\ line' = line
      /\ pc = "terminated" =>
            /\ pc' = "terminated"
            /\ line' = line
            /\ backend_calls' = backend_calls
            /\ conversation_history' = conversation_history ]_vars

C14_Witness ==
  /\ pc = "terminated"
  /\ interrupted
  /\ "SessionInterrupted" \in Range(output)
  /\ HasVerb(question) /\ Verb(question) = W_save
  /\ Len(file_written) = 4

\* C15: when the remote client failed to initialize, the loop still runs,
\* every `!model gpt` is refused as not available, the selection never is
\* gpt and the remote backend is never called.
C15_NoClientNoRemote ==
  openai_client = None =>
    /\ current_model # KEY_GPT
    /\ "openai" \notin Range(backend_calls)
    /\ (pc = "awaiting" /\ HasArg(question) /\ Verb(question) = W_model
        /\ Arg(question) = KEY_GPT /\ ~interrupted) => output = <<"NotAvailable">>

C15_Witness ==
  /\ openai_client = None
  /\ pc = "awaiting"
  /\ HasArg(question) /\ Verb(question) = W_model /\ Arg(question) = KEY_GPT
  /\ line = Bang \o W_model \o Sp \o <<"G","P","T">>
  /\ output = <<"NotAvailable">>
  /\ conversation_history # <<>>

\* C16: `!save` with a non-empty history whose write fails reports the
\* failure, leaves history and model unchanged and returns to awaiting
\* input; a `!save` whose write does not fail exports the entries the history
\* then holds, so a later one exports the same entries.
C16_WriteErrorRecovered ==
  [][ (pc = "dispatching" /\ HasVerb(question) /\ Verb(question) = W_save
       /\ conversation_history # <<>> /\ TurnStep) =>
        /\ output' = IF ExportMatches(file_written', conversation_history)
                     THEN <<"Saved">> ELSE <<"ErrorSaving">>
        /\ conversation_history' = conversation_history
        /\ current_model' = current_model
        /\ pc' = "awaiting" ]_vars

C16_Witness ==
  /\ pc = "awaiting"
  /\ HasVerb(question) /\ Verb(question) = W_save
  /\ output = <<"ErrorSaving">>
  /\ Len(conversation_history) = 2
  /\ Len(file_written) = 4
  /\ current_model = KEY_GPT

\* C17: `!history` renders one line per stored entry, numbered in insertion
\* order; the line of question q is its first 100 characters followed by the
\* ellipsis when q is longer than 100 characters, and q in full otherwise;
\* the history is unchanged.
C17_HistoryPreview ==
  [][ (pc = "dispatching" /\ HasVerb(question) /\ Verb(question) = W_history
       /\ conversation_history # <<>> /\ TurnStep) =>
        /\ output' = <<"History">>
        /\ Len(history_text') = Len(conversation_history)
        /\ \A i \in 1..Len(conversation_history) :
             LET q == conversation_history[i][1] IN
             /\ history_text'[i].n = i
             /\ history_text'[i].text =
                  IF Len(q) > 100 THEN SubSeq(q, 1, 100) \o <<".", ".", ".">> ELSE q
        /\ conversation_history' = conversation_history ]_vars

C17_Witness ==
  /\ pc = "awaiting"
  /\ HasVerb(question) /\ Verb(question) = W_history
  /\ Len(history_text) = 2
  /\ Len(conversation_history[1][1]) = 101 /\ Len(history_text[1].text) = 103
  /\ Len(conversation_history[2][1]) = 100 /\ Len(history_text[2].text) = 100

\* a question: an input that is neither empty nor a command
IsQuestion(q) == q # <<>> /\ ~startswith(q, Bang)

\* C18: a question causes exactly one backend call, to the backend of the
\* model selected when it is dispatched: never a call to the other backend,
\* never a second call in the turn, whether the call returned or failed.
C18_OneCallToSelectedBackend ==
  /\ Len(backend_calls) <= 1
  /\ (IsQuestion(question) /\ pc \in {"calling", "awaiting"}) =>
        backend_calls = <<AVAILABLE_MODELS[current_model].provider>>
  /\ (IsQuestion(question) /\ pc = "terminated" /\ backend_calls # <<>>) =>
        backend_calls = <<AVAILABLE_MODELS[current_model].provider>>

C18_Witness ==
  /\ pc = "awaiting"
  /\ IsQuestion(question)
  /\ current_model = KEY_GPT
  /\ backend_calls = <<"openai">>
  /\ output = <<"Thinking", "Error", "Sorry">>
  /\ conversation_history # <<>>

\* C19: the selected model changes only in a `!model <key>` that succeeds,
\* and becomes that key; the history changes only by the append of the
\* answered question or by `!clear`, and neither of these changes the model.
C19_FrameOfSessionState ==
  [][ /\ (current_model' # current_model) =>
            /\ pc = "dispatching" /\ HasArg(question) /\ Verb(question) = W_model
            /\ output' = <<"Switched">>
            /\ current_model' = Arg(question)
            /\ conversation_history' = conversation_history
      /\ (conversation_history' # conversation_history) =>
            /\ current_model' = current_model
            /\ \/ /\ pc = "calling" /\ IsQuestion(question)
                  /\ "Error" \notin Range(output') /\ "Answer" \in Range(output')
                  /\ conversation_history' = Append(conversation_history, <<question, answer'>>)
               \/ /\ pc = "dispatching" /\ HasVerb(question) /\ Verb(question) = W_clear
                  /\ conversation_history' = <<>> ]_vars

C19_Witness ==
  /\ pc = "awaiting"
  /\ HasVerb(question) /\ Verb(question) = W_help
  /\ output = <<"Help">>
  /\ current_model = KEY_GPT
  /\ Len(conversation_history) = 2

\* C20: whenever the selected model is gpt the remote client exists, a
\* question is never dispatched through a missing client, and the client is
\* never assigned after construction.
C20_GptOnlyWithClient ==
  /\ [](current_model = KEY_GPT => openai_client # None)
  /\ []((pc = "calling" /\ AVAILABLE_MODELS[current_model].provider = "openai") =>
          openai_client = "client")
  /\ [][openai_client' = openai_client]_vars

C20_Witness ==
  /\ pc = "calling"
  /\ current_model = KEY_GPT
  /\ openai_client = "client"
  /\ backend_calls = <<"openai">>
  /\ ~ollama.running

====
